---- MODULE Spec2Model ----
(***************************************************************************)
(* Notification ledger and badge projector of src/App.tsx.                 *)
(*                                                                         *)
(* Values.  An optional JavaScript value is a tuple: <<>> is undefined,    *)
(* <<v>> is the value v.  An object is a function from its own keys to     *)
(* their values, so a key that is absent and a key that holds undefined    *)
(* are different objects that read the same.                               *)
(***************************************************************************)
EXTENDS Integers, Sequences, FiniteSets, TLC

\* ---------------------------------------------------------------- bounds
MaxEvents == 2
MaxPresses == 1
MaxSerialEvents == 2
MaxSerialPresses == 2
MaxTasks == 2
MaxClock == 2
MaxFaults == 1

\* ------------------------------------------------------- JavaScript values
Undefined == <<>>

Some(v) == <<v>>

\* obj.key : the value under an own key, undefined for a key the object lacks
Prop(obj, key) == IF key \in DOMAIN obj THEN Some(obj[key]) ELSE Undefined

\* opt || dflt on strings: undefined and the empty string are falsy
OrElse(opt, dflt) == IF opt # Undefined /\ opt[1] # "" THEN opt[1] ELSE dflt

\* { ...a, ...b } : own keys of both, b's values win (also its undefined ones)
Spread(a, b) == [k \in DOMAIN a \cup DOMAIN b |-> IF k \in DOMAIN b THEN b[k] ELSE a[k]]

\* -------------------------------------------------------- inbound messages
Msg1 == [messageId |-> Some("m1"),
         notification |-> Some([title |-> "Hi", body |-> "There"]),
         data |-> Undefined]

Msg2 == [messageId |-> Some("m1"),
         notification |-> Undefined,
         data |-> Some([title |-> "Call", link |-> "app://call/alice"])]

Msg3 == [messageId |-> Undefined, notification |-> Undefined, data |-> Undefined]

Messages == {Msg1, Msg2, Msg3}

\* a notification or data block with the given optional title and body: a key
\* is an own key of the block only when its value is given
Block(titleOpt, bodyOpt) ==
    [k \in {x \in {"title", "body"} :
                (IF x = "title" THEN titleOpt ELSE bodyOpt) # Undefined}
        |-> IF k = "title" THEN titleOpt[1] ELSE bodyOpt[1]]

\* no block, or a block whose title and body are each absent, empty or the
\* given string
BlocksOf(title, body) ==
    {<<>>} \cup {<<Block(titleOpt, bodyOpt)>> :
                    titleOpt \in {<<>>, <<"">>, <<title>>},
                    bodyOpt \in {<<>>, <<"">>, <<body>>}}

\* every shape of inbound message: each block missing or present, each of its
\* title and body absent, empty or set
AllMessages ==
    {[messageId |-> <<"m1">>, notification |-> n, data |-> d] :
        n \in BlocksOf("Hi", "There"), d \in BlocksOf("Call", "Now")}

\* ------------------------------------------------ extractNotificationContent
DefaultTitle == "New Message"

DefaultBody == "You have a new notification."

\* an extraction that falls through to the data block field by field
extractNotificationContentFieldLevel(remoteMessage) ==
    LET notification == remoteMessage.notification
        data == remoteMessage.data
        fromData(key, dflt) == IF data # Undefined THEN OrElse(Prop(data[1], key), dflt) ELSE dflt
        displayTitle ==
            IF notification # Undefined
            THEN OrElse(Prop(notification[1], "title"), fromData("title", DefaultTitle))
            ELSE fromData("title", DefaultTitle)
        displayBody ==
            IF notification # Undefined
            THEN OrElse(Prop(notification[1], "body"), fromData("body", DefaultBody))
            ELSE fromData("body", DefaultBody)
    IN [title |-> displayTitle, body |-> displayBody, data |-> data]

extractNotificationContent(remoteMessage) ==
    LET notification == remoteMessage.notification
        data == remoteMessage.data
        displayTitle ==
            IF notification # Undefined
            THEN OrElse(Prop(notification[1], "title"), DefaultTitle)
            ELSE IF data # Undefined
                 THEN OrElse(Prop(data[1], "title"), DefaultTitle)
                 ELSE DefaultTitle
        displayBody ==
            IF notification # Undefined
            THEN OrElse(Prop(notification[1], "body"), DefaultBody)
            ELSE IF data # Undefined
                 THEN OrElse(Prop(data[1], "body"), DefaultBody)
                 ELSE DefaultBody
    IN [title |-> displayTitle, body |-> displayBody, data |-> data]

\* remoteMessage.messageId || Date.now().toString()
NotificationId(remoteMessage, t) == OrElse(remoteMessage.messageId, ToString(t))

\* ------------------------------------------------------------- JSON, storage
\* The persisted value under NOTIFICATION_STORAGE_KEY: <<"null">> when the key
\* is missing, <<"json", text>> for a text JSON.parse accepts, <<"corrupt">> for
\* one it rejects.
NoItem == <<"null">>

CorruptItem == <<"corrupt">>

\* A property whose value is undefined is left out of the text; of the fields
\* of a record only data can be undefined.
IsUndefinedProp(obj, k) == k = "data" /\ obj[k] = Undefined

\* a serialisation that leaves data out altogether
StringifyObjectNoData(obj) == [k \in DOMAIN obj \ {"data"} |-> obj[k]]

StringifyObject(obj) == [k \in {j \in DOMAIN obj : ~IsUndefinedProp(obj, j)} |-> obj[k]]

\* JSON.stringify(notifications)
JSONStringify(notifications) ==
    <<"json", [i \in 1..Len(notifications) |-> StringifyObject(notifications[i])]>>

\* JSON.parse(text): the array of objects the text denotes
JSONParse(item) == item[2]

\* reading a field of a record, as notif.data does
Field(notif, k) == IF k = "data" THEN (IF k \in DOMAIN notif THEN notif[k] ELSE Undefined) ELSE notif[k]

\* a load without its catch for a failed read: getItem's rejection reaches
\* the caller
loadNotificationsFromStorageReadUncaught(item, readOk) ==
    IF ~readOk THEN [threw |-> TRUE, value |-> <<>>]
    ELSE IF item = NoItem THEN [threw |-> FALSE, value |-> <<>>]
    ELSE IF item = CorruptItem THEN [threw |-> FALSE, value |-> <<>>]
    ELSE [threw |-> FALSE, value |-> JSONParse(item)]

\* a load whose JSON.parse is outside the try
loadNotificationsFromStorageParseUncaught(item, readOk) ==
    IF ~readOk THEN [threw |-> FALSE, value |-> <<>>]
    ELSE IF item = NoItem THEN [threw |-> FALSE, value |-> <<>>]
    ELSE IF item = CorruptItem THEN [threw |-> TRUE, value |-> <<>>]
    ELSE [threw |-> FALSE, value |-> JSONParse(item)]

\* loadNotificationsFromStorage: readOk is whether AsyncStorage.getItem resolved.
\* The result says whether the call threw to its caller and what it returned.
loadNotificationsFromStorage(item, readOk) ==
    IF ~readOk THEN [threw |-> FALSE, value |-> <<>>]
    ELSE IF item = NoItem THEN [threw |-> FALSE, value |-> <<>>]
    ELSE IF item = CorruptItem THEN [threw |-> FALSE, value |-> <<>>]
    ELSE [threw |-> FALSE, value |-> JSONParse(item)]

\* a save that re-reads the key and keeps the stored records whose ids its
\* argument lacks
saveNotificationsToStorageMerging(item, notifications, writeOk) ==
    LET current == loadNotificationsFromStorage(item, TRUE).value
        kept == SelectSeq(current,
                          LAMBDA notif : \A i \in DOMAIN notifications :
                                             notifications[i].id # notif.id)
    IN IF writeOk THEN [threw |-> FALSE, item |-> JSONStringify(notifications \o kept)]
       ELSE [threw |-> FALSE, item |-> item]

\* a save without its try/catch: a failed write rejects to the caller
saveNotificationsToStorageUncaught(item, notifications, writeOk) ==
    IF writeOk THEN [threw |-> FALSE, item |-> JSONStringify(notifications)]
    ELSE [threw |-> TRUE, item |-> item]

\* saveNotificationsToStorage: writeOk is whether AsyncStorage.setItem resolved.
\* The result says whether the call threw and the persisted value afterwards.
saveNotificationsToStorage(item, notifications, writeOk) ==
    IF writeOk THEN [threw |-> FALSE, item |-> JSONStringify(notifications)]
    ELSE [threw |-> FALSE, item |-> item]

\* ------------------------------------------------------------ badge projector
\* a filter that keeps the read records
UnreadCountOfRead(notifications) == Len(SelectSeq(notifications, LAMBDA notif : notif.read))

\* notifications.filter(notif => !notif.read).length
UnreadCount(notifications) == Len(SelectSeq(notifications, LAMBDA notif : ~notif.read))

\* an updateBadgeCount that clears the badge when the platform call fails
updateBadgeCountClearing(oldBadge, notifications, apiOk) ==
    IF apiOk THEN UnreadCount(notifications) ELSE 0

\* an updateBadgeCount that publishes the length of the list
updateBadgeCountAll(oldBadge, notifications, apiOk) ==
    IF apiOk THEN Len(notifications) ELSE oldBadge

\* updateBadgeCount: apiOk is whether messaging().setBadge is available and did
\* not throw.  The result is the badge shown afterwards.
updateBadgeCount(oldBadge, notifications, apiOk) ==
    IF apiOk THEN UnreadCount(notifications) ELSE oldBadge

\* -------------------------------------------------------------------- upsert
\* existingNotifications.findIndex(n => n.id === notificationId)
RECURSIVE FindFrom(_, _, _)
FindFrom(notifications, notificationId, i) ==
    IF i > Len(notifications) THEN -1
    ELSE IF notifications[i].id = notificationId THEN i
    ELSE FindFrom(notifications, notificationId, i + 1)

\* a findIndex that skips the first record
FindIndexSkipFirst(notifications, notificationId) == FindFrom(notifications, notificationId, 2)

FindIndex(notifications, notificationId) == FindFrom(notifications, notificationId, 1)

\* a background handler that marks what it stores as read
ForcedReadBackgroundToo(kind) == kind \in {"openedApp", "initial", "background"}

\* the read value each delivery handler forces
ForcedRead(kind) == kind \in {"openedApp", "initial"}

\* an upsert that pushes without looking the id up
UpsertPushOnly(existingNotifications, notificationId, extracted, t, forcedRead) ==
    Append(existingNotifications,
           Spread(Spread([id |-> notificationId], extracted),
                  [timestamp |-> t, read |-> forcedRead]))

\* an upsert whose else branch forgets the push
UpsertNoPush(existingNotifications, notificationId, extracted, t, forcedRead) ==
    LET existingIndex == FindIndex(existingNotifications, notificationId)
    IN IF existingIndex # -1
       THEN [existingNotifications EXCEPT
                ![existingIndex] = Spread(Spread(existingNotifications[existingIndex], extracted),
                                          [timestamp |-> t, read |-> forcedRead])]
       ELSE existingNotifications

\* an upsert that takes the found record out and pushes the merged one
UpsertMoveToEnd(existingNotifications, notificationId, extracted, t, forcedRead) ==
    LET existingIndex == FindIndex(existingNotifications, notificationId)
        stamp == [timestamp |-> t, read |-> forcedRead]
    IN IF existingIndex # -1
       THEN Append(SubSeq(existingNotifications, 1, existingIndex - 1)
                       \o SubSeq(existingNotifications, existingIndex + 1,
                                 Len(existingNotifications)),
                   Spread(Spread(existingNotifications[existingIndex], extracted), stamp))
       ELSE Append(existingNotifications,
                   Spread(Spread([id |-> notificationId], extracted), stamp))

\* the merge-or-append the four delivery handlers share
Upsert(existingNotifications, notificationId, extracted, t, forcedRead) ==
    LET existingIndex == FindIndex(existingNotifications, notificationId)
        stamp == [timestamp |-> t, read |-> forcedRead]
    IN IF existingIndex # -1
       THEN [existingNotifications EXCEPT
                ![existingIndex] = Spread(Spread(existingNotifications[existingIndex], extracted), stamp)]
       ELSE Append(existingNotifications,
                   Spread(Spread([id |-> notificationId], extracted), stamp))

\* a mark-all that keeps only the records that were unread
MarkAllReadDroppingRead(existingNotifications) ==
    LET unread == SelectSeq(existingNotifications, LAMBDA notif : ~notif.read)
    IN [i \in 1..Len(unread) |-> Spread(unread[i], [read |-> TRUE])]

\* a map that marks only the first record
MarkAllReadFirstOnly(existingNotifications) ==
    [i \in 1..Len(existingNotifications) |->
        IF i = 1 THEN Spread(existingNotifications[i], [read |-> TRUE])
        ELSE existingNotifications[i]]

\* a map that flips read instead of setting it
MarkAllReadToggle(existingNotifications) ==
    [i \in 1..Len(existingNotifications) |->
        Spread(existingNotifications[i], [read |-> ~existingNotifications[i].read])]

\* existingNotifications.map(notif => ({ ...notif, read: true }))
MarkAllRead(existingNotifications) ==
    [i \in 1..Len(existingNotifications) |-> Spread(existingNotifications[i], [read |-> TRUE])]

\* ------------------------------------------------------------------- refresh
\* notifications.sort((a, b) => b.timestamp - a.timestamp): a stable sort,
\* latest first
RECURSIVE InsertDesc(_, _)
InsertDesc(sorted, notif) ==
    IF sorted = <<>> THEN <<notif>>
    ELSE IF sorted[Len(sorted)].timestamp >= notif.timestamp THEN Append(sorted, notif)
    ELSE Append(InsertDesc(SubSeq(sorted, 1, Len(sorted) - 1), notif), sorted[Len(sorted)])

RECURSIVE SortFrom(_, _, _)
SortFrom(notifications, i, acc) ==
    IF i > Len(notifications) THEN acc
    ELSE SortFrom(notifications, i + 1, InsertDesc(acc, notifications[i]))

\* a sort whose comparator is a.timestamp - b.timestamp: earliest first
SortByTimestampAsc(notifications) ==
    LET sorted == SortFrom(notifications, 1, <<>>)
    IN [i \in 1..Len(sorted) |-> sorted[Len(sorted) + 1 - i]]

SortByTimestampDesc(notifications) == SortFrom(notifications, 1, <<>>)

\* ----------------------------------------------------------------- deep links
\* the URLs the deep-link collaborator and the payloads carry
Urls == {"app://call/alice", "app://home"}

\* url.replace(/.*?:\/\//g, '').split('/') on those URLs
RouteSegments(url) ==
    CASE url = "app://call/alice" -> <<"call", "alice">>
      [] url = "app://home" -> <<"home">>

\* remoteMessage.data?.link || ''
LinkOf(remoteMessage) ==
    IF remoteMessage.data = Undefined THEN ""
    ELSE OrElse(Prop(remoteMessage.data[1], "link"), "")

NoLink == [by |-> "none", url |-> "", alert |-> Undefined]

\* handleDeepLink(url), called by `by` when the last navigation effect was
\* old: for an empty url nothing happens; otherwise an Alert names the screen
\* (segment 0 of the route) and the params (segment 1, or undefined)
handleDeepLink(old, by, url) ==
    IF url # ""
    THEN [by |-> by, url |-> url,
          alert |-> Some([screen |-> RouteSegments(url)[1],
                          params |-> IF Len(RouteSegments(url)) >= 2
                                     THEN Some(RouteSegments(url)[2]) ELSE Undefined])]
    ELSE old

\* delivery handlers that all end with a call of handleDeepLink
InvokesDeepLinkAll(kind) == kind \in {"foreground", "background", "openedApp", "initial"}

\* the handlers that end with handleDeepLink(remoteMessage.data?.link || '')
InvokesDeepLink(kind) == kind \in {"openedApp", "initial"}

\* ---------------------------------------------------------------------- state
VARIABLES
    storage,              \* the value under NOTIFICATION_STORAGE_KEY
    storedNotifications,  \* the App component's state
    badge,                \* the application icon badge
    badgeSource,          \* history: <<list>> the last publish counted, <<>> before one
    mounted,              \* App's mount effect has run
    initialPending,       \* getInitialNotification() has not resolved yet
    tasks,                \* handler invocations in flight, oldest first
    refreshes,            \* refreshStoredNotifications calls in flight
    now,                  \* Date.now()
    events,               \* history: delivery callbacks started
    presses,              \* history: presses of "Mark All As Read"
    seen,                 \* history: ids the delivery callbacks have upserted
    faults,               \* history: storage and badge calls that failed
    lastDone,             \* history: the handler invocation that finished last, and
                          \* the deliveries it left between their load and save
    lastRefresh,          \* history: the refresh that finished last
    serial,               \* the host starts a callback only when nothing is in flight
    deepLink,             \* the last navigation effect of handleDeepLink, and its caller
    urlPending            \* Linking.getInitialURL() has not resolved yet

vars == <<storage, storedNotifications, badge, badgeSource, mounted, initialPending,
          tasks, refreshes, now, events, presses, seen, faults, lastDone, lastRefresh, serial,
          deepLink, urlPending>>

DeliveryKinds == {"foreground", "background", "openedApp", "initial"}

RefreshStart == [pc |-> "load", list |-> <<>>, ioOk |-> TRUE]

RemoveAt(seq, i) == SubSeq(seq, 1, i - 1) \o SubSeq(seq, i + 1, Len(seq))

NoneDone == [kind |-> "none", saveOk |-> FALSE, refreshed |-> FALSE, behind |-> {}]

\* the outcomes an external call can have: it fails only within the fault budget
Outcomes == IF faults < MaxFaults THEN {TRUE, FALSE} ELSE {TRUE}

Spend(ok) == IF ok THEN faults ELSE faults + 1

\* the values Date.now() can return once an awaited load is over: the time
\* read last, or a tick later
DateNow == {t \in {now, now + 1} : t <= MaxClock}

Quiet == tasks = <<>> /\ refreshes = <<>>

\* whether the host may start another callback now
Admit(kind) ==
    /\ IF serial THEN Quiet ELSE Len(tasks) < MaxTasks
    /\ IF kind = "markAll"
       THEN presses < (IF serial THEN MaxSerialPresses ELSE MaxPresses)
       ELSE events < (IF serial THEN MaxSerialEvents ELSE MaxEvents)

InitApp ==
    /\ storedNotifications = <<>>
    /\ badge = 0
    /\ badgeSource = Undefined
    /\ mounted = FALSE
    /\ initialPending = FALSE
    /\ tasks = <<>>
    /\ refreshes = <<>>
    /\ now = 1
    /\ events = 0
    /\ presses = 0
    /\ seen = {}
    /\ faults = 0
    /\ lastDone = NoneDone
    /\ lastRefresh = [done |-> FALSE, readOk |-> FALSE, apiOk |-> FALSE]
    /\ deepLink = NoLink
    /\ urlPending = FALSE

\* a fresh install, callbacks free to overlap
Init == InitApp /\ storage = NoItem /\ serial = FALSE

\* a fresh install, callbacks run one at a time
InitSerial == InitApp /\ storage = NoItem /\ serial = TRUE

\* a record an earlier run of the app left behind
OldRecord == [id |-> "m1", title |-> "Old", body |-> "Kept", timestamp |-> 1, read |-> FALSE]

\* a launch over whatever an earlier run, or something else, left under the
\* storage key; callbacks run one at a time
InitStored ==
    /\ InitApp
    /\ storage \in {NoItem, CorruptItem, JSONStringify(<<OldRecord>>)}
    /\ serial = TRUE

\* App's effects on mount: refreshStoredNotifications() is started, the
\* handlers are subscribed, getInitialNotification() is asked, and the badge
\* effect runs on the initial (empty) state.
Mount ==
    /\ ~mounted
    /\ serial => Quiet
    /\ mounted' = TRUE
    /\ initialPending' = TRUE
    /\ refreshes' = Append(refreshes, RefreshStart)
    /\ \E apiOk \in Outcomes :
         /\ badge' = updateBadgeCount(badge, storedNotifications, apiOk)
         /\ badgeSource' = IF apiOk THEN Some(storedNotifications) ELSE badgeSource
         /\ faults' = Spend(apiOk)
    /\ urlPending' = TRUE
    /\ UNCHANGED <<storage, storedNotifications, tasks, now, events, presses, seen,
                   lastDone, lastRefresh, serial, deepLink>>

\* a handler invocation begins: the message is unpacked, its id derived, and
\* the load awaited
StartTask(kind, remoteMessage) ==
    /\ Admit(kind)
    /\ events' = IF kind = "markAll" THEN events ELSE events + 1
    /\ presses' = IF kind = "markAll" THEN presses + 1 ELSE presses
    /\ tasks' = Append(tasks,
                   [kind |-> kind, pc |-> "load", msg |-> remoteMessage,
                    id |-> NotificationId(remoteMessage, now),
                    loaded |-> <<>>, list |-> <<>>, ioOk |-> TRUE])

\* messaging().onMessage callback, up to its first await
OnMessage(remoteMessage) ==
    /\ mounted
    /\ StartTask("foreground", remoteMessage)
    /\ UNCHANGED <<storage, storedNotifications, badge, badgeSource, mounted,
                   initialPending, refreshes, now, seen, faults, lastDone, lastRefresh,
                   serial, deepLink, urlPending>>

\* messaging().setBackgroundMessageHandler callback, up to its first await
OnBackgroundMessage(remoteMessage) ==
    /\ StartTask("background", remoteMessage)
    /\ UNCHANGED <<storage, storedNotifications, badge, badgeSource, mounted,
                   initialPending, refreshes, now, seen, faults, lastDone, lastRefresh,
                   serial, deepLink, urlPending>>

\* messaging().onNotificationOpenedApp callback, up to its first await
OnNotificationOpenedApp(remoteMessage) ==
    /\ mounted
    /\ StartTask("openedApp", remoteMessage)
    /\ UNCHANGED <<storage, storedNotifications, badge, badgeSource, mounted,
                   initialPending, refreshes, now, seen, faults, lastDone, lastRefresh,
                   serial, deepLink, urlPending>>

\* getInitialNotification() resolves with the message that launched the app
GetInitialNotification(remoteMessage) ==
    /\ mounted
    /\ initialPending
    /\ initialPending' = FALSE
    /\ StartTask("initial", remoteMessage)
    /\ UNCHANGED <<storage, storedNotifications, badge, badgeSource, mounted,
                   refreshes, now, seen, faults, lastDone, lastRefresh, serial, deepLink, urlPending>>

\* getInitialNotification() resolves with null: nothing is done
GetInitialNotificationNull ==
    /\ mounted
    /\ initialPending
    /\ initialPending' = FALSE
    /\ UNCHANGED <<storage, storedNotifications, badge, badgeSource, mounted,
                   tasks, refreshes, now, events, presses, seen, faults, lastDone,
                   lastRefresh, serial, deepLink, urlPending>>

\* the "Mark All As Read" button, rendered only while the list shown is not
\* empty: markAllNotificationsAsRead up to its first await
PressMarkAllAsRead ==
    /\ mounted
    /\ Len(storedNotifications) # 0
    /\ StartTask("markAll", Msg3)
    /\ UNCHANGED <<storage, storedNotifications, badge, badgeSource, mounted,
                   initialPending, refreshes, now, seen, faults, lastDone, lastRefresh,
                   serial, deepLink, urlPending>>

\* a handler resumes after `await loadNotificationsFromStorage()`: it computes
\* the list to save and awaits the save.  A load that threw would end the
\* invocation (markAllNotificationsAsRead catches it, the callbacks reject).
HandlerLoad(j) ==
    /\ tasks[j].pc = "load"
    /\ \E readOk \in Outcomes, t \in DateNow :
         LET task == tasks[j]
             r == loadNotificationsFromStorage(storage, readOk)
             updated == IF task.kind = "markAll"
                        THEN MarkAllRead(r.value)
                        ELSE Upsert(r.value, task.id, extractNotificationContent(task.msg),
                                    t, ForcedRead(task.kind))
         IN /\ faults' = Spend(readOk)
            /\ now' = t
            /\ IF r.threw
               THEN /\ tasks' = RemoveAt(tasks, j)
                    /\ lastDone' = [kind |-> task.kind, saveOk |-> FALSE,
                                    refreshed |-> FALSE, behind |-> {}]
               ELSE /\ tasks' = [tasks EXCEPT ![j] =
                                   [task EXCEPT !.pc = "save", !.loaded = r.value,
                                                !.list = updated, !.ioOk = readOk]]
                    /\ UNCHANGED lastDone
            /\ seen' = IF r.threw \/ task.kind = "markAll" THEN seen ELSE seen \cup {task.id}
    /\ UNCHANGED <<storage, storedNotifications, badge, badgeSource, mounted,
                   initialPending, refreshes, events, presses, lastRefresh, serial, deepLink, urlPending>>

\* the deliveries of another id that have loaded and not yet saved while
\* invocation j saves, by the place each has in tasks once j is gone
Behind(j) ==
    {IF k < j THEN k ELSE k - 1 :
        k \in {i \in DOMAIN tasks : /\ i # j
                                    /\ tasks[i].pc = "save"
                                    /\ tasks[i].kind \in DeliveryKinds
                                    /\ tasks[j].kind \in DeliveryKinds
                                    /\ tasks[i].id # tasks[j].id}}

\* a handler resumes after `await saveNotificationsToStorage(...)`: every
\* handler but the background one starts a refresh without awaiting it, and the
\* two tap handlers then call handleDeepLink
HandlerSave(j) ==
    /\ tasks[j].pc = "save"
    /\ \E writeOk \in Outcomes :
         LET task == tasks[j]
             r == saveNotificationsToStorage(storage, task.list, writeOk)
             refreshed == ~r.threw /\ task.kind # "background"
         IN /\ storage' = r.item
            /\ faults' = Spend(writeOk)
            /\ refreshes' = IF refreshed THEN Append(refreshes, RefreshStart) ELSE refreshes
            /\ lastDone' = [kind |-> task.kind, saveOk |-> writeOk /\ ~r.threw,
                            refreshed |-> refreshed, behind |-> Behind(j)]
            /\ deepLink' = IF ~r.threw /\ InvokesDeepLink(task.kind)
                           THEN handleDeepLink(deepLink, task.kind, LinkOf(task.msg))
                           ELSE deepLink
    /\ tasks' = RemoveAt(tasks, j)
    /\ UNCHANGED <<storedNotifications, badge, badgeSource, mounted, initialPending,
                   now, events, presses, seen, lastRefresh, serial, urlPending>>

\* refreshStoredNotifications: the storage read of its load
RefreshLoad(i) ==
    /\ refreshes[i].pc = "load"
    /\ \E readOk \in Outcomes :
         LET r == loadNotificationsFromStorage(storage, readOk)
         IN /\ faults' = Spend(readOk)
            /\ refreshes' = IF r.threw THEN RemoveAt(refreshes, i)
                            ELSE [refreshes EXCEPT ![i] =
                                    [pc |-> "set", list |-> r.value, ioOk |-> readOk]]
    /\ UNCHANGED <<storage, storedNotifications, badge, badgeSource, mounted,
                   initialPending, tasks, now, events, presses, seen, lastDone,
                   lastRefresh, serial, deepLink, urlPending>>

\* a refresh that also writes the sorted list back under the storage key
RefreshSetWriteBack(i) ==
    /\ refreshes[i].pc = "set"
    /\ LET notifications == SortByTimestampDesc(refreshes[i].list)
       IN /\ storedNotifications' = notifications
          /\ storage' = JSONStringify(notifications)
          /\ \E apiOk \in Outcomes :
               /\ badge' = updateBadgeCount(badge, notifications, apiOk)
               /\ badgeSource' = IF apiOk THEN Some(notifications) ELSE badgeSource
               /\ lastRefresh' = [done |-> TRUE, readOk |-> refreshes[i].ioOk, apiOk |-> apiOk]
               /\ faults' = Spend(apiOk)
    /\ refreshes' = RemoveAt(refreshes, i)
    /\ UNCHANGED <<mounted, initialPending, tasks, now, events, presses, seen,
                   lastDone, serial, deepLink, urlPending>>

\* refreshStoredNotifications resumes: sort, setStoredNotifications, and the
\* effect on storedNotifications that calls updateBadgeCount
RefreshSet(i) ==
    /\ refreshes[i].pc = "set"
    /\ LET notifications == SortByTimestampDesc(refreshes[i].list)
       IN /\ storedNotifications' = notifications
          /\ \E apiOk \in Outcomes :
               /\ badge' = updateBadgeCount(badge, notifications, apiOk)
               /\ badgeSource' = IF apiOk THEN Some(notifications) ELSE badgeSource
               /\ lastRefresh' = [done |-> TRUE, readOk |-> refreshes[i].ioOk, apiOk |-> apiOk]
               /\ faults' = Spend(apiOk)
    /\ refreshes' = RemoveAt(refreshes, i)
    /\ UNCHANGED <<storage, mounted, initialPending, tasks, now, events, presses, seen,
                   lastDone, serial, deepLink, urlPending>>

Next ==
    \/ Mount
    \/ \E m \in Messages : OnMessage(m)
    \/ \E m \in Messages : OnBackgroundMessage(m)
    \/ \E m \in Messages : OnNotificationOpenedApp(m)
    \/ \E m \in Messages : GetInitialNotification(m)
    \/ GetInitialNotificationNull
    \/ PressMarkAllAsRead
    \/ \E j \in 1..Len(tasks) : HandlerLoad(j)
    \/ \E j \in 1..Len(tasks) : HandlerSave(j)
    \/ \E i \in 1..Len(refreshes) : RefreshLoad(i)
    \/ \E i \in 1..Len(refreshes) : RefreshSet(i)

Spec == Init /\ [][Next]_vars

\* the steps of the app while the host hands nothing to the background handler
ForegroundNext ==
    \/ Mount
    \/ \E m \in Messages : OnMessage(m)
    \/ \E m \in Messages : OnNotificationOpenedApp(m)
    \/ \E m \in Messages : GetInitialNotification(m)
    \/ GetInitialNotificationNull
    \/ PressMarkAllAsRead
    \/ \E j \in 1..Len(tasks) : HandlerLoad(j)
    \/ \E j \in 1..Len(tasks) : HandlerSave(j)
    \/ \E i \in 1..Len(refreshes) : RefreshLoad(i)
    \/ \E i \in 1..Len(refreshes) : RefreshSet(i)

\* a fresh install, callbacks free to overlap, no background delivery
ForegroundSpec == Init /\ [][ForegroundNext]_vars

\* Linking's 'url' event: the listener hands the URL to handleDeepLink
OnUrl(url) ==
    /\ mounted
    /\ serial => Quiet
    /\ deepLink' = handleDeepLink(deepLink, "url", url)
    /\ UNCHANGED <<storage, storedNotifications, badge, badgeSource, mounted,
                   initialPending, tasks, refreshes, now, events, presses, seen, faults,
                   lastDone, lastRefresh, serial, urlPending>>

\* Linking.getInitialURL() resolves: with the URL that launched the app, which
\* goes to handleDeepLink, or with null
GetInitialURL(urlOpt) ==
    /\ mounted
    /\ urlPending
    /\ urlPending' = FALSE
    /\ deepLink' = IF urlOpt # Undefined THEN handleDeepLink(deepLink, "initialURL", urlOpt[1])
                   ELSE deepLink
    /\ UNCHANGED <<storage, storedNotifications, badge, badgeSource, mounted,
                   initialPending, tasks, refreshes, now, events, presses, seen, faults,
                   lastDone, lastRefresh, serial>>

\* the ledger's steps and the deep-link collaborator's callbacks
LinkNext ==
    \/ Next
    \/ \E url \in Urls : OnUrl(url)
    \/ \E urlOpt \in {Undefined} \cup {Some(url) : url \in Urls} : GetInitialURL(urlOpt)

\* callbacks one at a time, the deep-link collaborator's among them
LinkSpec == InitSerial /\ [][LinkNext]_vars

\* a fresh install on which the background handler has just been handed a
\* message of any shape
InitExtract ==
    /\ storage = NoItem
    /\ storedNotifications = <<>>
    /\ badge = 0
    /\ badgeSource = Undefined
    /\ mounted = FALSE
    /\ initialPending = FALSE
    /\ \E remoteMessage \in AllMessages :
         tasks = <<[kind |-> "background", pc |-> "load", msg |-> remoteMessage,
                    id |-> NotificationId(remoteMessage, 1),
                    loaded |-> <<>>, list |-> <<>>, ioOk |-> TRUE]>>
    /\ refreshes = <<>>
    /\ now = 1
    /\ events = 1
    /\ presses = 0
    /\ seen = {}
    /\ faults = 0
    /\ lastDone = NoneDone
    /\ lastRefresh = [done |-> FALSE, readOk |-> FALSE, apiOk |-> FALSE]
    /\ deepLink = NoLink
    /\ urlPending = FALSE
    /\ serial = TRUE

\* that one invocation, run to its end
ExtractNext ==
    \/ \E j \in 1..Len(tasks) : HandlerLoad(j)
    \/ \E j \in 1..Len(tasks) : HandlerSave(j)

ExtractSpec == InitExtract /\ [][ExtractNext]_vars

SerialSpec == InitSerial /\ [][Next]_vars

StoredSpec == InitStored /\ [][Next]_vars

\* the persisted ledger, read without failure
Persisted == loadNotificationsFromStorage(storage, TRUE).value

\* ------------------------------------------------------------ the claims
IdsOf(notifications) == {notifications[i].id : i \in DOMAIN notifications}

\* each id of ids is the id of exactly one record, and there is no other record
ExactlyOnePer(notifications, ids) ==
    /\ IdsOf(notifications) = ids
    /\ \A i, k \in DOMAIN notifications : notifications[i].id = notifications[k].id => i = k

AtMostOnePerId(notifications) ==
    \A i, k \in DOMAIN notifications : notifications[i].id = notifications[k].id => i = k

SavingDeliveries == {j \in DOMAIN tasks : tasks[j].pc = "save" /\ tasks[j].kind \in DeliveryKinds}

\* C1: when delivery callbacks run one after another from an empty ledger and
\* every storage call succeeds, the list each upsert produces, and the ledger
\* persisted once the callback is over, hold exactly one record for each
\* distinct id delivered so far.
C1_OneRecordPerDeliveredId ==
    faults = 0 =>
        /\ \A j \in SavingDeliveries : ExactlyOnePer(tasks[j].list, seen)
        /\ tasks = <<>> => ExactlyOnePer(Persisted, seen)

\* a second delivery repeats the id of the first
C1_Witness ==
    /\ faults = 0 /\ events = 2 /\ Cardinality(seen) = 1
    /\ \E j \in SavingDeliveries : Len(tasks[j].loaded) = 1 /\ Len(tasks[j].list) = 1

\* C2: the persisted ledger never holds two records with one id, whatever
\* the interleaving of the handlers and whichever storage calls fail.
C2_AtMostOneRecordPerId == AtMostOnePerId(Persisted)

\* a delivery and markAllNotificationsAsRead are both between load and save,
\* after a failed call, over a ledger that already holds the delivered id
C2_Witness ==
    /\ faults > 0 /\ Len(tasks) = 2 /\ Len(Persisted) > 0
    /\ tasks[1].pc = "save" /\ tasks[2].pc = "save"
    /\ tasks[1].kind = "markAll" /\ tasks[2].kind \in DeliveryKinds
    /\ tasks[2].id \in IdsOf(Persisted)

\* C3: in each delivery callback the upsert keeps the length of the loaded
\* list when the id is in it and adds exactly one record when it is not.
C3_UpsertLength ==
    \A j \in SavingDeliveries :
        Len(tasks[j].list) =
            IF tasks[j].id \in IdsOf(tasks[j].loaded)
            THEN Len(tasks[j].loaded) ELSE Len(tasks[j].loaded) + 1

\* after an append, a background-tap callback has merged into the loaded
\* record
C3_Witness ==
    \E j \in SavingDeliveries :
        /\ tasks[j].kind = "openedApp" /\ Len(tasks[j].loaded) = 1
        /\ tasks[j].loaded[1].id = tasks[j].id /\ Len(tasks[j].list) = 1

\* the number of unread records, counted record by record
UnreadIn(notifications) == Cardinality({i \in DOMAIN notifications : notifications[i].read = FALSE})

TapKinds == {"openedApp", "initial"}

\* C4 as claimed: once any delivery callback, run alone, and what it started
\* have finished, no storage or badge call having failed, a refresh was
\* triggered and the badge is the persisted ledger's unread count.
C4_AsClaimed ==
    (lastDone.kind \in DeliveryKinds /\ Quiet /\ faults = 0) =>
        (lastDone.refreshed /\ badge = UnreadIn(Persisted))

\* C4 amended: the foreground, background-tap and terminated-tap callbacks
\* trigger a refresh when they complete and the background callback triggers
\* none; once one of the first three, run alone, and its refresh have
\* finished, the refresh having read storage without failure and the badge
\* call having been available, the badge is the persisted ledger's unread
\* count.
C4_RefreshAndBadge ==
    /\ lastDone.kind \in TapKinds \cup {"foreground"} => lastDone.refreshed
    /\ lastDone.kind = "background" => ~lastDone.refreshed
    /\ (lastDone.kind \in TapKinds \cup {"foreground"} /\ Quiet
            /\ lastRefresh.readOk /\ lastRefresh.apiOk)
        => badge = UnreadIn(Persisted)

\* a background-tap on one of two stored records, its refresh over
C4_Witness ==
    /\ Quiet /\ lastDone.kind = "openedApp" /\ lastDone.refreshed
    /\ lastRefresh.readOk /\ lastRefresh.apiOk
    /\ Len(Persisted) = 2 /\ badge = 1

\* HandlerSave(j) has just run and its write went through
Saved(j) == tasks' = RemoveAt(tasks, j) /\ faults' = faults

\* C5: when a delivery callback, run alone with its load and save succeeding,
\* completes, the persisted record with the delivered id is unread after the
\* foreground and background callbacks and read after the two tap callbacks.
C5_ForcedReadPersisted ==
    [][\A j \in SavingDeliveries :
          (tasks[j].ioOk /\ Saved(j)) =>
              \E i \in DOMAIN Persisted' :
                  /\ Persisted'[i].id = tasks[j].id
                  /\ Persisted'[i].read = (tasks[j].kind \in TapKinds)]_vars

\* a background delivery has re-marked as unread the one record that
\* markAllNotificationsAsRead had marked read
C5_Witness ==
    /\ tasks = <<>> /\ faults = 0 /\ events = 2 /\ presses = 1
    /\ lastDone.kind = "background" /\ lastDone.saveOk
    /\ Len(Persisted) = 1 /\ Persisted[1].read = FALSE

DisplayFields == {"id", "title", "body", "timestamp", "data"}

SavingMarkAll == {j \in DOMAIN tasks : tasks[j].pc = "save" /\ tasks[j].kind = "markAll"}

\* C6: when markAllNotificationsAsRead, run alone with its load and save
\* succeeding, completes, every persisted record is read, the unread count is
\* 0, and the records are the same in number, order, id, title, body,
\* timestamp and data as before.
C6_MarkAllReadPersisted ==
    [][\A j \in SavingMarkAll :
          (tasks[j].ioOk /\ Saved(j)) =>
              /\ \A i \in DOMAIN Persisted' : Persisted'[i].read = TRUE
              /\ UnreadIn(Persisted') = 0
              /\ Len(Persisted') = Len(Persisted)
              /\ \A i \in DOMAIN Persisted : \A k \in DisplayFields :
                    Field(Persisted'[i], k) = Field(Persisted[i], k)]_vars

\* markAllNotificationsAsRead is about to save two records it loaded unread
C6_Witness ==
    \E j \in SavingMarkAll :
        /\ tasks[j].ioOk /\ Len(tasks[j].loaded) = 2
        /\ \A i \in 1..2 : tasks[j].loaded[i].read = FALSE /\ tasks[j].list[i].read = TRUE

\* C7: a markAllNotificationsAsRead that runs right after another one, both
\* succeeding, leaves the persisted value as the first one left it.
C7_MarkAllIdempotent ==
    [][\A j \in SavingMarkAll :
          (tasks[j].ioOk /\ lastDone.kind = "markAll" /\ lastDone.saveOk /\ Saved(j))
              => storage' = storage]_vars

\* the second of two markAllNotificationsAsRead in a row is about to save a
\* ledger of two records
C7_Witness ==
    \E j \in SavingMarkAll :
        /\ tasks[j].ioOk /\ lastDone.kind = "markAll" /\ lastDone.saveOk
        /\ Len(tasks[j].loaded) = 2

\* C8: the badge last published is the number of unread records of the list
\* it was computed from.
C8_BadgeIsUnreadCount ==
    badgeSource # Undefined => badge = UnreadIn(badgeSource[1])

\* a badge of 1 published from two records, one read and one unread, after
\* two upserts and a mark-all
C8_Witness ==
    /\ badgeSource # Undefined /\ presses = 1 /\ events = 2
    /\ Len(badgeSource[1]) = 2 /\ badge = 1

FieldNames == {"id", "title", "body", "timestamp", "read", "data"}

\* the records of a list, each as the values its six fields read as
RecordSet(notifications) ==
    {[k \in FieldNames |-> Field(notifications[i], k)] : i \in DOMAIN notifications}

\* C9: after a save that went through, a load that succeeds returns the
\* records that were saved: the same set of records, field value by field
\* value (a data that was undefined reads as undefined again).
C9_RoundTrip ==
    [][\A j \in DOMAIN tasks :
          (tasks[j].pc = "save" /\ Saved(j)) =>
              LET loaded == loadNotificationsFromStorage(storage', TRUE)
              IN ~loaded.threw /\ RecordSet(loaded.value) = RecordSet(tasks[j].list)]_vars

\* the refresh a handler started has loaded the two records the handler
\* saved, one with a data map and one whose data was undefined
C9_Witness ==
    /\ tasks = <<>> /\ lastDone.saveOk /\ faults = 0
    /\ \E r \in DOMAIN refreshes :
         /\ refreshes[r].pc = "set" /\ Len(refreshes[r].list) = 2
         /\ \E i, k \in 1..2 : /\ "data" \notin DOMAIN refreshes[r].list[i]
                               /\ "data" \in DOMAIN refreshes[r].list[k]

LoadingTasks == {j \in DOMAIN tasks : tasks[j].pc = "load"}

LoadingRefreshes == {i \in DOMAIN refreshes : refreshes[i].pc = "load"}

\* C10: a load never throws to the handler or refresh that awaits it (none
\* of them ends at its load), and the load returns the empty list when the
\* key is missing, when the read fails and when the stored text does not
\* parse.
C10_LoadFailsSoft ==
    [][/\ \A j \in LoadingTasks :
            (Len(tasks') = Len(tasks) /\ tasks'[j].pc = "save"
                /\ (storage \in {NoItem, CorruptItem} \/ faults' # faults))
            => tasks'[j].loaded = <<>>
       /\ \A i \in LoadingRefreshes :
            (Len(refreshes') = Len(refreshes) /\ refreshes'[i].pc = "set"
                /\ (storage \in {NoItem, CorruptItem} \/ faults' # faults))
            => refreshes'[i].list = <<>>
       /\ Cardinality(LoadingTasks') < Cardinality(LoadingTasks)
            => Cardinality(SavingDeliveries' \cup SavingMarkAll')
                 > Cardinality(SavingDeliveries \cup SavingMarkAll)
       /\ Cardinality(LoadingRefreshes') < Cardinality(LoadingRefreshes)
            => Len(refreshes') = Len(refreshes)]_vars

\* a handler goes on to its save with the empty list over a stored text that
\* does not parse
C10_Witness ==
    /\ storage = CorruptItem
    /\ \E j \in DOMAIN tasks : tasks[j].pc = "save" /\ tasks[j].ioOk /\ tasks[j].loaded = <<>>

SavingTasks == {j \in DOMAIN tasks : tasks[j].pc = "save"}

\* HandlerSave(j) has just run and its write failed
SaveFailed(j) == tasks' = RemoveAt(tasks, j) /\ faults' = faults + 1

\* C11: a save whose storage write fails does not raise to the handler that
\* awaits it: the persisted value is exactly what it was before, and the
\* handler goes on to its next step (every handler but the background one
\* starts its refresh, the background one simply returns).
C11_SaveFailsSoft ==
    [][\A j \in SavingTasks :
          SaveFailed(j) =>
              /\ storage' = storage
              /\ lastDone'.kind = tasks[j].kind
              /\ lastDone'.refreshed = (tasks[j].kind # "background")
              /\ refreshes' = IF tasks[j].kind # "background"
                              THEN Append(refreshes, RefreshStart) ELSE refreshes]_vars

\* a foreground delivery whose write failed over a ledger of one record has
\* gone on to start its refresh, the ledger still holding that record
C11_Witness ==
    /\ lastDone.kind = "foreground" /\ ~lastDone.saveOk /\ lastDone.refreshed
    /\ faults = 1 /\ events = 2 /\ Len(Persisted) = 1
    /\ \E i \in DOMAIN refreshes : refreshes[i].pc = "load"

\* C12: the value under the storage key changes only in the step in which a
\* handler's saveNotificationsToStorage writes, and then to the text of the
\* list that handler passed; the loads, the refresh with its sort, the
\* upsert and the badge update leave it as it was.
C12_OnlySaveWrites ==
    [][storage' # storage =>
          \E j \in SavingTasks :
              /\ tasks' = RemoveAt(tasks, j)
              /\ storage' = JSONStringify(tasks[j].list)]_vars

\* a refresh has sorted two records into an order other than the persisted
\* one and published the badge, the persisted ledger keeping its own order
C12_Witness ==
    /\ Quiet /\ faults = 0 /\ lastRefresh.done /\ badgeSource = Some(storedNotifications)
    /\ Len(Persisted) = 2 /\ Len(storedNotifications) = 2
    /\ storedNotifications # Persisted
    /\ storedNotifications = SortByTimestampDesc(Persisted)

RecordsOf(notifications) == {notifications[i] : i \in DOMAIN notifications}

\* C13: when a delivery callback saves after a delivery callback of another
\* id has saved, both having loaded before either saved, the persisted
\* ledger becomes the list of the one that saves last: it holds that one's
\* record, and every record the first one wrote that the last one had not
\* loaded, the first one's own record among them, is gone.  The interleaving
\* is reachable without any failed call.
C13_LostUpdate ==
    [][\A k \in SavingDeliveries :
          (k \in lastDone.behind /\ lastDone.saveOk /\ Saved(k)) =>
              /\ storage' = JSONStringify(tasks[k].list)
              /\ \E i \in DOMAIN Persisted' : Persisted'[i].id = tasks[k].id
              /\ \A i \in DOMAIN Persisted :
                    (Persisted[i].id # tasks[k].id
                        /\ Persisted[i] \notin RecordsOf(tasks[k].loaded))
                    => Persisted[i] \notin RecordsOf(Persisted')]_vars

\* two deliveries of two ids have both saved, no call having failed and no
\* "Mark All As Read" having been pressed, and the ledger holds one record:
\* that of the one that saved last
C13_Witness ==
    /\ tasks = <<>> /\ faults = 0 /\ presses = 0 /\ events = 2
    /\ lastDone.saveOk /\ lastDone.kind \in DeliveryKinds
    /\ Cardinality(seen) = 2 /\ Len(Persisted) = 1

\* the places of the loaded list that hold the id delivered to invocation j
PlacesOf(j) == {i \in DOMAIN tasks[j].loaded : tasks[j].loaded[i].id = tasks[j].id}

\* C14: when the list a delivery callback loaded holds the incoming id, the
\* list it goes on to save has the same length; at the first place of that
\* id stands a record with that id, the title, body and data extracted from
\* the incoming message, the time just read as timestamp and the read value
\* the callback forces; every other place holds the record it held.
C14_MergeFrame ==
    \A j \in SavingDeliveries :
        PlacesOf(j) # {} =>
            LET task == tasks[j]
                at == CHOOSE i \in PlacesOf(j) : \A k \in PlacesOf(j) : i <= k
                extracted == extractNotificationContent(task.msg)
            IN /\ Len(task.list) = Len(task.loaded)
               /\ task.list[at].id = task.id
               /\ task.list[at].title = extracted.title
               /\ task.list[at].body = extracted.body
               /\ Field(task.list[at], "data") = task.msg.data
               /\ task.list[at].timestamp = now
               /\ task.list[at].read = (task.kind \in TapKinds)
               /\ \A i \in DOMAIN task.loaded : i # at => task.list[i] = task.loaded[i]

\* a tap callback has merged into the second of two loaded records, changing
\* it and leaving the first as it was
C14_Witness ==
    \E j \in SavingDeliveries :
        /\ tasks[j].kind \in TapKinds /\ Len(tasks[j].loaded) = 2
        /\ PlacesOf(j) = {2}
        /\ tasks[j].list[2] # tasks[j].loaded[2]
        /\ tasks[j].list[1] = tasks[j].loaded[1]

\* the block has a non-empty value under the key
HasValue(blockOpt, key) ==
    blockOpt # Undefined /\ key \in DOMAIN blockOpt[1] /\ blockOpt[1][key] # ""

\* the notification block's value if there is one, otherwise the data block's
\* value if there is one, otherwise the default
FieldByField(remoteMessage, key, dflt) ==
    IF HasValue(remoteMessage.notification, key) THEN remoteMessage.notification[1][key]
    ELSE IF HasValue(remoteMessage.data, key) THEN remoteMessage.data[1][key]
    ELSE dflt

\* the value of the block the message has, the notification block before the
\* data block, or the default when that one block lacks a non-empty value
BlockByBlock(remoteMessage, key, dflt) ==
    LET blockOpt == IF remoteMessage.notification # Undefined
                    THEN remoteMessage.notification ELSE remoteMessage.data
    IN IF HasValue(blockOpt, key) THEN blockOpt[1][key] ELSE dflt

\* the records a delivery callback is about to save under the id it was given
Upserted(j) == {notif \in RecordsOf(tasks[j].list) : notif.id = tasks[j].id}

\* C15 as claimed: the title (and body) stored for a message is the
\* notification block's when that block has one, otherwise the data block's
\* when that block has one, otherwise the default.
C15_AsClaimed ==
    \A j \in SavingDeliveries : \A notif \in Upserted(j) :
        /\ notif.title = FieldByField(tasks[j].msg, "title", DefaultTitle)
        /\ notif.body = FieldByField(tasks[j].msg, "body", DefaultBody)

\* C15 amended: the block is chosen first, the notification block if the
\* message has it and otherwise the data block; the title (and body) stored
\* is that block's when it is there and not empty, and the default otherwise:
\* a notification block without a title hides the title of the data block.
C15_ExtractByBlock ==
    \A j \in SavingDeliveries : \A notif \in Upserted(j) :
        /\ notif.title = BlockByBlock(tasks[j].msg, "title", DefaultTitle)
        /\ notif.body = BlockByBlock(tasks[j].msg, "body", DefaultBody)

\* a message whose notification block has a body and an empty title, and
\* whose data block has a title, is stored under the default title
C15_Witness ==
    \E j \in SavingDeliveries : \E notif \in Upserted(j) :
        /\ tasks[j].msg.notification = <<[title |-> "", body |-> "There"]>>
        /\ HasValue(tasks[j].msg.data, "title")
        /\ notif.title = DefaultTitle /\ notif.body = "There"

\* how many places of the list hold the record
Occurrences(notifications, notif) ==
    Cardinality({i \in DOMAIN notifications : notifications[i] = notif})

IsPermutationOf(a, b) ==
    /\ Len(a) = Len(b)
    /\ \A notif \in RecordsOf(a) \cup RecordsOf(b) :
          Occurrences(a, notif) = Occurrences(b, notif)

IsLatestFirst(notifications) ==
    \A i \in 1..(Len(notifications) - 1) :
        notifications[i].timestamp >= notifications[i + 1].timestamp

SettingRefreshes == {i \in DOMAIN refreshes : refreshes[i].pc = "set"}

\* C16: in the step in which a refresh sets the list shown, that list is a
\* permutation of the list the refresh loaded and its timestamps never
\* increase from one record to the next.
C16_RefreshSorted ==
    [][\A i \in SettingRefreshes :
          refreshes' = RemoveAt(refreshes, i) =>
              /\ IsPermutationOf(storedNotifications', refreshes[i].list)
              /\ IsLatestFirst(storedNotifications')]_vars

\* a refresh has shown three records, of two different timestamps, in an
\* order other than the one they are persisted in
C16_Witness ==
    /\ Quiet /\ lastRefresh.done /\ lastRefresh.readOk
    /\ Len(storedNotifications) = 3
    /\ storedNotifications # Persisted
    /\ IsPermutationOf(storedNotifications, Persisted)
    /\ storedNotifications[1].timestamp > storedNotifications[3].timestamp

\* invocation j resumes from its awaited save and runs to its end
Finishes(j) == tasks[j].pc = "save" /\ tasks' = RemoveAt(tasks, j)

\* the payload of the message carries a non-empty link
HasLink(remoteMessage) ==
    /\ remoteMessage.data # Undefined
    /\ "link" \in DOMAIN remoteMessage.data[1]
    /\ remoteMessage.data[1]["link"] # ""

\* what a handler's last step does about the deep link: a tap handler whose
\* payload carries a link resolves it once its save has returned, and an
\* Alert is shown; a tap without a link, and any other handler, leave the
\* navigation effect as it was
DeepLinkAtEnd(j) ==
    IF tasks[j].kind \in TapKinds /\ HasLink(tasks[j].msg)
    THEN /\ deepLink'.by = tasks[j].kind
         /\ deepLink'.url = tasks[j].msg.data[1]["link"]
         /\ deepLink'.alert # Undefined
    ELSE deepLink' = deepLink

SetsDisplayed ==
    \/ ~mounted /\ mounted'
    \/ \E i \in SettingRefreshes : refreshes' = RemoveAt(refreshes, i)

\* C18: when the badge call made for a newly set list fails (the API is
\* missing or throws), nothing is raised: the refresh ends as usual, the
\* badge and the persisted value stay what they were, and the list shown is
\* the one just set.  The badge is published, or tried, in no other step than
\* one that sets the list shown, so nothing retries the publish before the
\* next such step.
C18_BadgeFailsSoft ==
    [][/\ \A i \in SettingRefreshes :
            (refreshes' = RemoveAt(refreshes, i) /\ faults' = faults + 1) =>
                /\ badge' = badge /\ badgeSource' = badgeSource
                /\ storage' = storage
                /\ storedNotifications' = SortByTimestampDesc(refreshes[i].list)
                /\ lastRefresh'.done /\ ~lastRefresh'.apiOk
                /\ tasks' = tasks
       /\ (~mounted /\ mounted' /\ faults' = faults + 1) =>
            /\ badge' = badge /\ badgeSource' = badgeSource
            /\ storage' = storage /\ storedNotifications' = storedNotifications
       /\ ~SetsDisplayed =>
            /\ badge' = badge /\ badgeSource' = badgeSource
            /\ lastRefresh' = lastRefresh
            /\ storedNotifications' = storedNotifications]_vars

\* the publish for a list whose one record was just marked read has failed:
\* the badge still shows the 1 published before, and nothing is in flight
\* that would publish again
C18_Witness ==
    /\ Quiet /\ lastRefresh.done /\ ~lastRefresh.apiOk /\ faults = 1
    /\ lastDone.kind = "markAll" /\ lastDone.saveOk
    /\ Len(storedNotifications) = 1 /\ UnreadIn(storedNotifications) = 0
    /\ badge = 1 /\ badgeSource # Some(storedNotifications)

\* C19: with callbacks run one at a time, no step takes an id out of the
\* persisted ledger, except the save of a handler whose own storage read had
\* failed: every delivery and every markAllNotificationsAsRead whose read
\* succeeded leaves all the ids that were persisted, whether its write goes
\* through or not.
C19_IdsNeverShrink ==
    [][(\A j \in DOMAIN tasks : Finishes(j) => tasks[j].ioOk)
          => IdsOf(Persisted) \subseteq IdsOf(Persisted')]_vars

\* over a record left by an earlier run, two deliveries and two mark-alls
\* have run without a failed call and the ledger holds three ids
C19_Witness ==
    /\ tasks = <<>> /\ faults = 0 /\ events = 2 /\ presses = 2
    /\ lastDone.kind = "markAll" /\ lastDone.saveOk
    /\ Cardinality(IdsOf(Persisted)) = 3

\* C20: a handler whose storage read fails goes on with the empty list, and
\* when the ledger was not empty and the save that follows goes through, the
\* ledger afterwards is just what the handler built from nothing: the one
\* incoming record after a delivery callback, no record at all after
\* markAllNotificationsAsRead.
C20_FailedLoadDestroysHistory ==
    [][/\ \A j \in LoadingTasks :
            (tasks' # tasks /\ faults' = faults + 1) =>
                /\ Len(tasks') = Len(tasks)
                /\ tasks'[j].pc = "save"
                /\ tasks'[j].loaded = <<>> /\ ~tasks'[j].ioOk
       /\ \A j \in SavingTasks :
            (Finishes(j) /\ ~tasks[j].ioOk /\ faults' = faults /\ Len(Persisted) > 0) =>
                IF tasks[j].kind = "markAll"
                THEN Persisted' = <<>>
                ELSE /\ Len(Persisted') = 1
                     /\ Persisted'[1].id = tasks[j].id]_vars

\* the list shown still has the two records that were persisted; a delivery
\* whose read failed has saved, and one record is persisted
C20_Witness ==
    /\ tasks = <<>> /\ faults = 1 /\ lastDone.kind \in DeliveryKinds /\ lastDone.saveOk
    /\ Len(storedNotifications) = 2 /\ Len(Persisted) = 1

\* in this step a foreground or background delivery of the id saves
DeliverySaves(id) ==
    \E j \in SavingDeliveries :
        /\ Finishes(j)
        /\ tasks[j].kind \in {"foreground", "background"}
        /\ tasks[j].id = id

\* C21: in every execution, handlers interleaved or not and no call failing,
\* a persisted record that is read is persisted as unread in the next state
\* only by the save of a foreground or background delivery of that record's
\* id; so what markAllNotificationsAsRead saved as read stays read until
\* such a delivery.
C21_UnreadOnlyByDelivery ==
    [][faults' = 0 =>
          \A i \in DOMAIN Persisted : \A k \in DOMAIN Persisted' :
              (Persisted[i].read /\ Persisted'[k].id = Persisted[i].id
                  /\ ~Persisted'[k].read)
              => DeliverySaves(Persisted[i].id)]_vars

\* C22: with no background delivery, once every handler and every refresh
\* (the one started on mount included) has finished, no call having failed,
\* the list shown holds the records of the persisted ledger and the badge is
\* the persisted ledger's unread count, in whatever order the overlapping
\* refreshes finished.
C22_DisplayedIsPersisted ==
    (mounted /\ Quiet /\ faults = 0) =>
        /\ RecordSet(storedNotifications) = RecordSet(Persisted)
        /\ badge = UnreadIn(Persisted)

====
